---- MODULE Spec2Model ----
(***************************************************************************)
(* Model of the STL viewer (src/src/App.jsx): the STL decoders (parseSTL,  *)
(* parseBinarySTL, parseASCIISTL) as operators, and the STLViewer          *)
(* component with its CameraController as a state machine whose steps are  *)
(* the browser's event-loop tasks: a file selection, a FileReader load or  *)
(* error callback, and the 100 ms timeout that sets the fitted flag.  Each *)
(* step is the handler together with the React render, commit and effects  *)
(* that its state updates cause.                                           *)
(***************************************************************************)
EXTENDS Integers, Sequences, FiniteSets, TLC

VARIABLES
    mesh,      \* useState(null), App.jsx:146: the displayed geometry
    loading,   \* useState(false), App.jsx:147
    fileName,  \* useState(''), App.jsx:148 (a sequence of characters)
    fitted,    \* useState(false), App.jsx:149
    meshRef,   \* useRef(), App.jsx:151: the mounted <mesh>'s geometry
    camera,    \* the camera placement: "default" or the geometry it was fitted to
    timers,    \* number of pending setTimeout(() => setFitted(true), 100)
    readers,   \* FileReaders whose read has not completed yet
    nextId,    \* ordinal of the next accepted selection
    alert,     \* message shown by the last task ("" if none)
    ev,        \* history: the last task that ran
    fits,      \* history: fit computations run on the displayed geometry
    data,      \* decoder harness: the input handed to parseSTL
    result     \* decoder harness: what parseSTL returned

vars == <<mesh, loading, fileName, fitted, meshRef, camera, timers, readers,
          nextId, alert, ev, fits, data, result>>

viewerVars == <<mesh, loading, fileName, fitted, meshRef, camera, timers,
                readers, nextId, alert, ev, fits>>

-----------------------------------------------------------------------------
(* Bounds of the model *)

\* accepted file selections in one behaviour of Spec
MaxLoads == 2

\* accepted file selections in one behaviour of DeepSpec
MaxDeepLoads == 3

\* longest buffer handed to the decoder harness, in bytes
MaxBufLen == 240

\* largest low byte of the triangle count in the decoder harness
MaxCountByte == 3

(* Layout of a binary STL file, as parseBinarySTL reads it *)

\* bytes inspected by the format check
HeaderLen == 80

\* offset of the first triangle record
RecordsAt == 84

\* bytes per triangle record
RecordLen == 50

\* bytes of the stored normal that precede the vertices in a record
NormalLen == 12

\* bytes per vertex
VertexLen == 12

\* bytes per scalar
FloatLen == 4

-----------------------------------------------------------------------------
(* Strings are sequences of one-character strings. *)

Str_solid == <<"s", "o", "l", "i", "d">>
Str_dotstl == <<".", "s", "t", "l">>

WhiteSpace == {" ", "\n"}

LowerChar(c) ==
    CASE c = "A" -> "a" [] c = "B" -> "b" [] c = "C" -> "c" [] c = "D" -> "d"
      [] c = "I" -> "i" [] c = "L" -> "l" [] c = "O" -> "o" [] c = "S" -> "s"
      [] c = "T" -> "t" [] c = "X" -> "x"
      [] OTHER -> c

toLowerCase(s) == [i \in 1..Len(s) |-> LowerChar(s[i])]

startsWith(s, p) == Len(s) >= Len(p) /\ SubSeq(s, 1, Len(p)) = p

endsWith(s, p) == Len(s) >= Len(p) /\ SubSeq(s, Len(s) - Len(p) + 1, Len(s)) = p

RECURSIVE trimStart(_)
trimStart(s) ==
    IF s # <<>> /\ Head(s) \in WhiteSpace THEN trimStart(Tail(s)) ELSE s

RECURSIVE trimEnd(_)
trimEnd(s) ==
    IF s # <<>> /\ s[Len(s)] \in WhiteSpace
    THEN trimEnd(SubSeq(s, 1, Len(s) - 1))
    ELSE s

trim(s) == trimEnd(trimStart(s))

-----------------------------------------------------------------------------
(* Byte buffers.  A buffer is a record                                      *)
(*   len   its byteLength                                                   *)
(*   head  the leading bytes of the header read as characters (the rest of  *)
(*         the 80 header bytes are not whitespace-significant)              *)
(*   n4    bytes 80..83                                                     *)
(*   tag   names the file; the 32-bit float stored at byte offset o is the  *)
(*         uninterpreted value <<tag, o>>, so any two floats of any two     *)
(*         files differ                                                     *)
(*   text  the file decoded as text, split into whitespace-separated tokens *)
(* A read outside [0, len) throws a RangeError, as DataView does.           *)

Thrown == [ok |-> FALSE]

\* DataView.getUint32(o, true) over the four bytes n4 stored at o
getUint32(buffer) ==
    buffer.n4[1] + 256 * buffer.n4[2] + 65536 * buffer.n4[3] + 16777216 * buffer.n4[4]

\* whether DataView.getFloat32(o, true) / getUint32(o, true) is in bounds
InBoundsStart(buffer, o) == o >= 0 /\ o < buffer.len

InBounds(buffer, o) == o >= 0 /\ o + FloatLen <= buffer.len

getFloat32(buffer, o) == <<buffer.tag, o>>

-----------------------------------------------------------------------------
(* parseBinarySTL, App.jsx:37-60 *)

\* byte offset of scalar j of vertex v of record i (App.jsx:46 and 51); the
\* first NormalLen bytes of a record are skipped
vertexOffsetNoSkip(i, v, j) ==
    RecordsAt + i * RecordLen + v * VertexLen + j * FloatLen

vertexOffset(i, v, j) ==
    RecordsAt + i * RecordLen + NormalLen + v * VertexLen + j * FloatLen

\* the three nested loops of App.jsx:45-54, one scalar per step; a read out of
\* bounds throws and abandons the decode
RECURSIVE fillPositions(_, _, _, _, _, _)
fillPositions(buffer, numTriangles, i, v, j, positions) ==
    IF i >= numTriangles THEN [ok |-> TRUE, positions |-> positions]
    ELSE IF v >= 3 THEN fillPositions(buffer, numTriangles, i + 1, 0, 0, positions)
    ELSE IF j >= 3 THEN fillPositions(buffer, numTriangles, i, v + 1, 0, positions)
    ELSE IF ~InBounds(buffer, vertexOffset(i, v, j)) THEN Thrown
    ELSE fillPositions(buffer, numTriangles, i, v, j + 1,
                       Append(positions, getFloat32(buffer, vertexOffset(i, v, j))))

\* new Float32Array(numTriangles * 9) of App.jsx:42 throws a RangeError too
\* when the count is beyond what can be allocated; such a count is beyond
\* every buffer of the model, whose first missing scalar throws as well.
parseBinarySTL(buffer) ==
    IF buffer.len < HeaderLen THEN Thrown              \* new Uint8Array(buffer, 0, 80)
    ELSE IF ~InBounds(buffer, HeaderLen) THEN Thrown   \* view.getUint32(80, true)
    ELSE LET filled == fillPositions(buffer, getUint32(buffer), 0, 0, 0, <<>>)
         IN  IF filled.ok
             THEN [ok |-> TRUE, decoder |-> "binary", positions |-> filled.positions]
             ELSE Thrown

-----------------------------------------------------------------------------
(* parseASCIISTL, App.jsx:63-85.  The text is a sequence of tokens; the     *)
(* regular expression of App.jsx:67 is matched token by token.              *)

\* tokens that [\d.\-e]+ matches, with the value parseFloat gives them
NumTokens == {"0", "1", "-1", "1e1"}

parseFloat(t) ==
    CASE t = "0" -> 0 [] t = "1" -> 1 [] t = "-1" -> -1 [] t = "1e1" -> 10

FacetLen == 21

IsNum(t) == t \in NumTokens

\* whether the facet pattern matches the tokens at p .. p + 20
FacetAt(text, p) ==
    /\ p + FacetLen - 1 <= Len(text)
    /\ text[p] = "facet" /\ text[p + 1] = "normal"
    /\ \A k \in 2..4 : IsNum(text[p + k])
    /\ text[p + 5] = "outer" /\ text[p + 6] = "loop"
    /\ \A v \in 0..2 :
          /\ text[p + 7 + 4 * v] = "vertex"
          /\ \A k \in 1..3 : IsNum(text[p + 7 + 4 * v + k])
    /\ text[p + 19] = "endloop" /\ text[p + 20] = "endfacet"

\* the nine captured groups of a match at p, in order (App.jsx:74-76)
FacetScalars(text, p) ==
    [k \in 1..9 |-> parseFloat(text[p + 7 + 4 * ((k - 1) \div 3) + 1 + ((k - 1) % 3)])]

\* regex.exec in a loop: leftmost match, then on from its end (App.jsx:72)
RECURSIVE scanFacets(_, _, _)
scanFacets(text, p, positions) ==
    IF p > Len(text) THEN positions
    ELSE IF FacetAt(text, p)
         THEN scanFacets(text, p + FacetLen, positions \o FacetScalars(text, p))
         ELSE scanFacets(text, p + 1, positions)

parseASCIISTL(text) ==
    [ok |-> TRUE, decoder |-> "ascii", positions |-> scanFacets(text, 1, <<>>)]

-----------------------------------------------------------------------------
(* parseSTL, App.jsx:7-34.  Its argument is [kind, buf]: kind is the class  *)
(* of the value ("ArrayBuffer", "SharedArrayBuffer" or "string").           *)

\* headerStr.trim().startsWith('solid'), App.jsx:22
LooksAscii(buf) == startsWith(trim(buf.head), Str_solid)

parseSTL(d) ==
    IF d.kind = "ArrayBuffer" THEN parseBinarySTL(d.buf)     \* App.jsx:11-12
    ELSE IF d.kind = "string" THEN Thrown                    \* new DataView(string)
    ELSE IF d.buf.len < HeaderLen THEN Thrown                \* view.getUint8(i), i >= len
    ELSE IF ~LooksAscii(d.buf) THEN parseBinarySTL(d.buf)    \* App.jsx:22-28
    ELSE parseASCIISTL(d.buf.text)                           \* App.jsx:31-32

-----------------------------------------------------------------------------
(* Files offered to the file input *)

Name_a == <<"a", ".", "s", "t", "l">>
Name_B == <<"B", ".", "S", "T", "L">>
Name_txt == <<"c", ".", "t", "x", "t">>
Name_stl == <<"s", "t", "l">>

Head_bin == <<"b", "i", "n">>
Head_solid == <<" ", "s", "o", "l", "i", "d", " ", "m">>
Head_SOLID == <<"S", "O", "L", "I", "D">>

NoText == <<>>

OneFacet ==
    <<"solid", "m", "facet", "normal", "0", "0", "1", "outer", "loop",
      "vertex", "0", "0", "0", "vertex", "1", "0", "0", "vertex", "0", "1", "0",
      "endloop", "endfacet", "endsolid", "m">>

\* a facet whose last literal the pattern does not match, then a good one
BadThenGood ==
    <<"facet", "normal", "0", "0", "1", "outer", "loop",
      "vertex", "0", "0", "0", "vertex", "1", "0", "0", "vertex", "0", "1", "1E1",
      "endloop", "endfacet",
      "facet", "normal", "0", "0", "-1", "outer", "loop",
      "vertex", "-1", "0", "0", "vertex", "1e1", "0", "0", "vertex", "0", "1", "0",
      "endloop", "endfacet">>

\* a complete binary file of one triangle
BufOne == [len |-> 134, head |-> Head_bin, n4 |-> <<1, 0, 0, 0>>,
           tag |-> 1, text |-> NoText]

\* one triangle, the two attribute bytes of the record missing
BufShort == [len |-> 132, head |-> Head_bin, n4 |-> <<1, 0, 0, 0>>,
             tag |-> 2, text |-> NoText]

\* one triangle, the last byte of its last vertex missing as well
BufShorter == [len |-> 131, head |-> Head_bin, n4 |-> <<1, 0, 0, 0>>,
               tag |-> 3, text |-> NoText]

\* a header declaring two triangles over a 100-byte buffer
BufTrunc == [len |-> 100, head |-> Head_bin, n4 |-> <<2, 0, 0, 0>>,
             tag |-> 4, text |-> NoText]

\* an ASCII file: bytes 80..83 are the characters " fac"
BufAscii == [len |-> 160, head |-> Head_solid,
             n4 |-> <<32, 102, 97, 99>>, tag |-> 5, text |-> OneFacet]

NoBuf == [len |-> 0, head |-> <<>>, n4 |-> <<0, 0, 0, 0>>, tag |-> 0, text |-> NoText]

\* event.target.files[0] when nothing was chosen
NoFile == [name |-> <<>>, type |-> "undefined", content |-> NoBuf]

Files ==
    [name : {Name_a}, type : {""},
     content : {BufOne, BufShort, BufShorter, BufTrunc, BufAscii}]
    \cup [name : {Name_B, Name_txt, Name_stl}, type : {"model/stl", "text/plain"},
          content : {BufOne}]

Selections == Files \cup {NoFile}

-----------------------------------------------------------------------------
(* State *)

NoMesh == [req |-> 0, positions |-> <<>>]

NoEvent == [kind |-> "init", req |-> 0, file |-> NoFile, decoder |-> "none"]

NoData == [kind |-> "none", buf |-> NoBuf]

NotRun == [run |-> FALSE]

InitViewer ==
    /\ mesh = NoMesh
    /\ loading = FALSE
    /\ fileName = <<>>
    /\ fitted = FALSE
    /\ meshRef = NoMesh
    /\ camera = 0
    /\ timers = 0
    /\ readers = {}
    /\ nextId = 1
    /\ alert = ""
    /\ ev = NoEvent
    /\ fits = 0

Init ==
    /\ InitViewer
    /\ data = NoData
    /\ result = NotRun

-----------------------------------------------------------------------------
(* Render, commit and effects.  A task's state updates are batched into one *)
(* render; the commit attaches meshRef, then the effects whose dependencies *)
(* changed since the previous commit run with the rendered values; a state  *)
(* update made by an effect causes one more render and commit.              *)

\* dependency list [meshRef, fitted, fileName, camera], App.jsx:118
CameraDepsChanged(prevFitted, prevName, f, n) == f # prevFitted \/ n # prevName

\* the condition of App.jsx:92
ShouldFit(ref, f) == ref # NoMesh /\ ~f

\* dependency list [fileName], App.jsx:202
ResetDepsChanged(prevName, n) == n # prevName

\* the condition of App.jsx:199
ResetApplies(n) == n # <<>>

\* The commit of a render of (m, l, n, f), with t timeouts pending, followed by
\* the effects and the re-render they cause.  A fit places the camera by the
\* bounding box of the mounted geometry (App.jsx:94-113) and starts the
\* timeout of App.jsx:116.
Commit(m, l, n, f, t) ==
    LET fit1 == CameraDepsChanged(fitted, fileName, f, n) /\ ShouldFit(m, f)
        reset == ResetDepsChanged(fileName, n) /\ ResetApplies(n) /\ f
        f2 == IF reset THEN FALSE ELSE f
        fit2 == reset /\ CameraDepsChanged(f, n, f2, n) /\ ShouldFit(m, f2)
        nfits == (IF fit1 THEN 1 ELSE 0) + (IF fit2 THEN 1 ELSE 0)
    IN  /\ mesh' = m
        /\ meshRef' = m
        /\ loading' = l
        /\ fileName' = n
        /\ fitted' = f2
        /\ camera' = IF nfits > 0 THEN m.req ELSE camera
        /\ timers' = t + nfits
        /\ fits' = IF m = mesh THEN fits + nfits ELSE nfits

-----------------------------------------------------------------------------
(* handleFileUpload, App.jsx:154-163 *)

\* the condition of App.jsx:156
IsSTLSelectionNoDot(file) ==
    /\ file # NoFile
    /\ (file.type = "model/stl" \/ endsWith(toLowerCase(file.name), Name_stl))

IsSTLSelection(file) ==
    /\ file # NoFile
    /\ (file.type = "model/stl" \/ endsWith(toLowerCase(file.name), Str_dotstl))

\* reader.readAsArrayBuffer(file), App.jsx:190-194: what e.target.result will be
readAsArrayBuffer(file) == [kind |-> "ArrayBuffer", buf |-> file.content]

\* the viewer as a consumer sees it
View == [mesh |-> mesh, fileName |-> fileName, fitted |-> fitted, camera |-> camera]

handleFileUpload(file) ==
    /\ UNCHANGED <<data, result>>
    /\ IF IsSTLSelection(file)
       THEN /\ readers' = readers \cup
                    {[id |-> nextId, file |-> file, before |-> View,
                      idle |-> readers = {} /\ timers = 0]}
            /\ nextId' = nextId + 1
            /\ alert' = ""
            /\ ev' = [kind |-> "select", req |-> nextId, file |-> file, decoder |-> "none"]
            /\ Commit(mesh, TRUE, file.name, fitted, timers)
       ELSE /\ alert' = "Please select a valid STL file"
            /\ ev' = [kind |-> "reject", req |-> 0, file |-> file, decoder |-> "none"]
            /\ UNCHANGED <<mesh, loading, fileName, fitted, meshRef, camera, timers,
                           readers, nextId, fits>>

-----------------------------------------------------------------------------
(* loadSTLFile, App.jsx:166-195: the reader's callbacks *)

\* reader.onload, App.jsx:169-182
ReaderOnLoad(r) ==
    /\ r \in readers
    /\ readers' = readers \ {r}
    /\ UNCHANGED <<nextId, data, result>>
    /\ LET geometry == parseSTL(readAsArrayBuffer(r.file))
       IN  IF geometry.ok
           THEN /\ alert' = ""
                /\ ev' = [kind |-> "load", req |-> r.id, file |-> r.file,
                          decoder |-> geometry.decoder]
                /\ Commit([req |-> r.id, positions |-> geometry.positions],
                          FALSE, fileName, FALSE, timers)
           ELSE /\ alert' = "Error parsing STL file. Please ensure it is a valid STL file."
                /\ ev' = [kind |-> "parseError", req |-> r.id, file |-> r.file,
                          decoder |-> "none"]
                /\ Commit(mesh, FALSE, fileName, fitted, timers)

\* reader.onerror, App.jsx:184-187
ReaderOnError(r) ==
    /\ r \in readers
    /\ readers' = readers \ {r}
    /\ UNCHANGED <<nextId, data, result>>
    /\ alert' = "Error reading file"
    /\ ev' = [kind |-> "readError", req |-> r.id, file |-> r.file, decoder |-> "none",
              before |-> r.before, idle |-> r.idle]
    /\ Commit(mesh, FALSE, fileName, fitted, timers)

\* the timeout of App.jsx:116 fires: setFitted(true)
FitTimeout ==
    /\ timers > 0
    /\ UNCHANGED <<readers, nextId, data, result>>
    /\ alert' = ""
    /\ ev' = [kind |-> "timer", req |-> 0, file |-> NoFile, decoder |-> "none"]
    /\ Commit(mesh, loading, fileName, TRUE, timers - 1)

\* the tasks of the event loop, with at most `budget` accepted selections
Step(budget) ==
    \/ \E file \in Selections :
          /\ IsSTLSelection(file) => nextId <= budget
          /\ handleFileUpload(file)
    \/ \E r \in readers : ReaderOnLoad(r)
    \/ \E r \in readers : ReaderOnError(r)
    \/ FitTimeout

Next == Step(MaxLoads)

Spec == Init /\ [][Next]_vars

DeepNext == Step(MaxDeepLoads)

DeepSpec == Init /\ [][DeepNext]_vars

-----------------------------------------------------------------------------
(* The decoders on their own: parseSTL applied to one input. *)

CountBytes == {<<b0, b1, 0, 0>> : b0 \in 0..MaxCountByte, b1 \in 0..1}

DecoderInputs ==
    [kind : {"ArrayBuffer", "SharedArrayBuffer", "string"},
     buf : [len : 0..MaxBufLen, head : {Head_bin, Head_solid, Head_SOLID},
            n4 : CountBytes, tag : {1}, text : {NoText, OneFacet, BadThenGood}]]

DecodeInit ==
    /\ InitViewer
    /\ data \in DecoderInputs
    /\ result = NotRun

Decode ==
    /\ ~result.run
    /\ result' = [run |-> TRUE, out |-> parseSTL(data)]
    /\ UNCHANGED <<data, viewerVars>>

DecodeSpec == DecodeInit /\ [][Decode]_vars

-----------------------------------------------------------------------------
(* Properties *)

ParseErrorAlert == "Error parsing STL file. Please ensure it is a valid STL file."

\* the triangle count a buffer of at least 84 bytes declares at bytes 80..83,
\* least significant byte first
DeclaredCount(buf) ==
    buf.n4[1] + 256 * buf.n4[2] + 65536 * buf.n4[3] + 16777216 * buf.n4[4]

\* len < 84 + N*50 - slack for the declared count N, or no room for the count
\* (N*50 > x is stated as N > x \div 50: the product of a 32-bit count exceeds
\* TLC's 32-bit integers)
ShorterThanDeclared(buf, slack) ==
    \/ buf.len < 84
    \/ DeclaredCount(buf) > (buf.len - 84 + slack) \div 50

\* C1: last write wins across overlapping loads: whatever the order of the
\* readers' callbacks, the displayed mesh never goes back from a later
\* selection's geometry to an earlier selection's, so that once all reads are
\* done the mesh of the most recent selection is the one displayed.
C1_LastWriteWins == [][mesh'.req >= mesh.req]_vars

\* C2: every installed mesh is eventually camera-fitted: once nothing is
\* pending any more (no read, no timeout), the camera has been fitted to the
\* displayed mesh and fitted is true.
C2_EveryMeshFitted ==
    (readers = {} /\ timers = 0 /\ mesh # NoMesh) => (camera = mesh.req /\ fitted)

\* C3: the camera fit is computed at most once per displayed mesh.
C3_FitAtMostOnce == fits <= 1

\* C4 as stated: a buffer shorter than 84 + N*50 bytes, N the count declared
\* at bytes 80..83 (or too short to hold a count), is never decoded: the load
\* ends in the parse-error alert.
C4_TruncatedAlwaysFails ==
    (/\ ev.kind \in {"load", "parseError"}
     /\ ShorterThanDeclared(ev.file.content, 0))
    => (ev.kind = "parseError" /\ alert = ParseErrorAlert)

\* the buffer ends before the last scalar of the last declared triangle does
\* (or before the count does)
CutsVertexData(buf) == ShorterThanDeclared(buf, 2)

\* C4 amended: a buffer that ends before the last vertex scalar of the last
\* declared triangle (shorter than 84 + N*50 - 2 bytes for N >= 1, or shorter
\* than 84 bytes) is never decoded: the reader's load callback shows the
\* parse-error alert, clears loading and leaves the displayed mesh, the
\* mounted mesh and the camera as they were.
C4_CutVertexDataFails ==
    [][(ev'.kind \in {"load", "parseError"} /\ ev' # ev
        /\ CutsVertexData(ev'.file.content))
       => (/\ ev'.kind = "parseError"
           /\ alert' = ParseErrorAlert
           /\ ~loading'
           /\ mesh' = mesh /\ meshRef' = meshRef /\ camera' = camera)]_vars

\* C4 witness: a truncated file failed to decode while an earlier mesh was shown
C4_Witness ==
    /\ ev.kind = "parseError"
    /\ CutsVertexData(ev.file.content)
    /\ ev.file.content.len >= 84
    /\ alert = ParseErrorAlert
    /\ mesh # NoMesh

\* C5: the displayed mesh and the installed camera plan belong to the same
\* loaded file in every state between tasks.
C5_MeshAndPlanSameFile == (mesh # NoMesh /\ camera # 0) => camera = mesh.req

\* C6: an uploaded file whose header, trimmed, begins with "solid" is decoded
\* by parseASCIISTL, every other uploaded file by parseBinarySTL.
C6_UploadUsesBothDecoders ==
    /\ (ev.kind \in {"load", "parseError"}
        /\ startsWith(trim(ev.file.content.head), Str_solid))
       => (ev.kind = "load" /\ ev.decoder = "ascii")
    /\ (ev.kind = "load" /\ ~startsWith(trim(ev.file.content.head), Str_solid))
       => ev.decoder = "binary"

\* C7: for a binary input of at least 84 + N*50 bytes, N the little-endian
\* count at bytes 80..83, the decode succeeds with exactly 9N scalars, scalar j
\* of vertex v of record i being the float stored at 84 + i*50 + 12 + v*12 + j*4,
\* and no scalar taken from a record's normal (bytes 0..11) or attribute
\* (bytes 48..49).
C7_BinaryDecode ==
    (/\ result.run
     /\ data.kind = "ArrayBuffer"
     /\ ~ShorterThanDeclared(data.buf, 0))
    => LET N == DeclaredCount(data.buf)
           out == result.out
       IN  /\ out.ok
           /\ Len(out.positions) = 9 * N
           /\ \A i \in 0..(N - 1) : \A v \in 0..2 : \A j \in 0..2 :
                 out.positions[9 * i + 3 * v + j + 1]
                     = <<data.buf.tag, 84 + i * 50 + 12 + v * 12 + j * 4>>
           /\ \A k \in 1..Len(out.positions) :
                 ((out.positions[k][2] - 84) % 50) \in 12..47

\* C7 witness: a complete two-triangle buffer was decoded to 18 scalars
C7_Witness ==
    /\ result.run
    /\ data.kind = "ArrayBuffer"
    /\ DeclaredCount(data.buf) = 2
    /\ data.buf.len = 184
    /\ result.out.ok
    /\ Len(result.out.positions) = 18

\* a selection the claim calls unsupported: no file, or neither the media type
\* model/stl nor a name ending in .stl whatever its case
Unsupported(file) ==
    \/ file = NoFile
    \/ /\ file.type # "model/stl"
       /\ ~endsWith(toLowerCase(file.name), Str_dotstl)

\* C8: an unsupported selection shows the rejection message, starts no read
\* and changes none of mesh, fileName, loading, fitted.
C8_UnsupportedRejected ==
    [][(ev'.kind \in {"select", "reject"} /\ Unsupported(ev'.file))
       => (/\ ev'.kind = "reject"
           /\ alert' = "Please select a valid STL file"
           /\ readers' = readers
           /\ mesh' = mesh /\ fileName' = fileName
           /\ loading' = loading /\ fitted' = fitted)]_vars

\* C8 witness: a file was rejected while a read was pending and a mesh shown
C8_Witness ==
    /\ ev.kind = "reject"
    /\ ev.file # NoFile
    /\ Unsupported(ev.file)
    /\ alert = "Please select a valid STL file"
    /\ readers # {}
    /\ mesh # NoMesh

\* C9: after a failed read of a file that was selected while nothing else was
\* pending and after which nothing else was selected, the displayed mesh, the
\* current file name, the fitted flag and the camera are what they were before
\* the file was selected.
C9_FailedReadRestores ==
    (ev.kind = "readError" /\ ev.idle /\ ev.req = nextId - 1)
    => (alert = "Error reading file" /\ View = ev.before)

\* C10: loading is true exactly while a read is pending.
C10_LoadingTracksPending == loading <=> (readers # {})

====
